---- MODULE Spec2Model ----
(***************************************************************************)
(* Model of substance's VirtualBox driver                                  *)
(* (src/substance/driver/virtualbox/__init__.py): configuration bootstrap, *)
(* host-only network reconciliation, the start pipeline, the pass-through  *)
(* machine operations and the machine state translator.                    *)
(*                                                                         *)
(* Every driver method is an operator from a state record                  *)
(*   st = [cfg, disk, hoifs, dhcps, calls]                                 *)
(* and a fault set f (the collaborator calls that fail in this run) to a   *)
(* pair [st, r]: the state after the method and the Python value it        *)
(* returns.  A Python value is a record [tag, val, err]:                   *)
(*   tag = "OK"    Try success carrying val                                *)
(*   tag = "Fail"  Try failure carrying err                                *)
(*   tag = "None"  the Python value None (a method without return)         *)
(*   tag = "True"  the Python value True                                   *)
(*   tag = "Raise" no value: an exception left the method                  *)
(* st.calls is the ordered log of the collaborator calls made.             *)
(*                                                                         *)
(* The driver is single-threaded: a method runs to completion in one step  *)
(* and leaves its record in `last`; Return is the caller taking the        *)
(* result, after which the next method, or a change made to the backend    *)
(* by someone else, can happen.                                            *)
(*                                                                         *)
(* Specifications:                                                         *)
(*   Spec          configuration, networking and start on a backend that   *)
(*                 changes out-of-band                                     *)
(*   SpecRetry     assertNetworking invoked again on its own result        *)
(*   SpecSequence  Try.sequence by itself and at its call site             *)
(*   SpecMachine   the machine operations other than start                 *)
(***************************************************************************)
EXTENDS Integers, Sequences, FiniteSets

VARIABLES cfg, disk, hoifs, dhcps, last

vars == <<cfg, disk, hoifs, dhcps, last>>

\* ------------------------------------------------------------------ bounds
MaxIfaces == 2
MaxUuid == 1
MaxFaults == 2

\* Host-only interface names vboxnet<n>; None is Python's None in the
\* config key `interface`.
None == 0
Names == 1..MaxIfaces
UUIDs == 1..MaxUuid

\* ---------------------------------------------------------- address ranges
\* A CIDR string "a/p" is [addr |-> a, prefix |-> p] over AddrBits-bit
\* addresses.  A formatted address is a dotted string of two fields of
\* AddrBits \div 2 bits each, here the pair of the two numbers.
AddrBits == 4

Octet == 2 ^ (AddrBits \div 2)

format(a) == <<a \div Octet, a % Octet>>

NoCidr == [addr |-> 0, prefix |-> 0]

DefaultNetwork == [addr |-> 4, prefix |-> 2]

CIDRs == {DefaultNetwork, [addr |-> 9, prefix |-> 2]}

\* netaddr.IPNetwork(cidr): the block of the address, indexable from its
\* first address.
BlockSize(cidr) == 2 ^ (AddrBits - cidr.prefix)

BlockFirst(cidr) == cidr.addr - (cidr.addr % BlockSize(cidr))

IPNetworkAt(cidr, i) ==
  IF i >= 0 THEN BlockFirst(cidr) + i ELSE BlockFirst(cidr) + BlockSize(cidr) + i

IPNetworkNetmask(cidr) == (2 ^ AddrBits) - BlockSize(cidr)

\* The address VirtualBox reports for an interface nobody configured.
UnconfiguredIP == 0

\* The gateways of the known ranges: the addresses a user gives an
\* interface when changing it out-of-band.
GatewayIPs == {IPNetworkAt(c, 1) : c \in CIDRs}

\* ------------------------------------------------------------ Python values
NoVal == [kind |-> "None", name |-> None, ip |-> 0]

NameVal(n) == [kind |-> "name", name |-> n, ip |-> 0]

HoifVal(n, a) == [kind |-> "hoif", name |-> n, ip |-> a]

DhcpVal(n) == [kind |-> "dhcp", name |-> n, ip |-> 0]

NoErr == [kind |-> "none", op |-> "none", arg |-> 0]

Err(kind, op, arg) == [kind |-> kind, op |-> op, arg |-> arg]

OK(v) == [tag |-> "OK", val |-> v, err |-> NoErr]

Fail(e) == [tag |-> "Fail", val |-> NoVal, err |-> e]

PyNone == [tag |-> "None", val |-> NoVal, err |-> NoErr]

Raise(kind, op) == [tag |-> "Raise", val |-> NoVal, err |-> Err(kind, op, 0)]

NotCalled == [tag |-> "NotCalled", val |-> NoVal, err |-> NoErr]

\* Python truth of a config value / of an object-or-None.
Truthy(n) == n # None

IsNone(v) == v.kind = "None"

\* ----------------------------------------------------- the Try combinators
\* substance.monads is not among the sources; the combinators follow the
\* outcome primitive's contract.
isFail(r) == r.tag = "Fail"

\* r.catchError(kind, lambda err: rec)
catchError(r, kind, rec) == IF isFail(r) /\ r.err.kind = kind THEN rec ELSE r

\* r.catch(lambda err: rec)
catch(r, rec) == IF isFail(r) THEN rec ELSE r

\* Try.sequence(rs): the first failure in input order, else the values.
RECURSIVE FirstFail(_, _)
FirstFail(rs, i) ==
  IF i > Len(rs) THEN 0
  ELSE IF isFail(rs[i]) THEN i ELSE FirstFail(rs, i + 1)

sequence(rs) ==
  LET i == FirstFail(rs, 1)
  IN IF i = 0
     THEN [tag |-> "OK", val |-> [k \in 1..Len(rs) |-> rs[k].val], err |-> NoErr]
     ELSE [tag |-> "Fail", val |-> NoVal, err |-> rs[i].err]

\* A chain method (.then, .bind) called on what the previous link returned:
\* on None there is no such attribute and AttributeError is raised.
ChainOn(r) ==
  IF r.tag = "None" THEN Raise("AttributeError", "then") ELSE r

\* ---------------------------------------------------------- collaborators
\* Every collaborator call is logged with its argument and how it ended.
Outcome(r) == IF r.tag = "OK" THEN "OK" ELSE r.err.kind

Logged(st, op, arg, r) ==
  [st EXCEPT !.calls = Append(@, [op |-> op, arg |-> arg, out |-> Outcome(r)])]

Ret(st, r) == [st |-> st, r |-> r]

Faulty(f, op) == op \in f

\* The backend's host-only interfaces are a set of [name, ip] records, one
\* per name.
IfNames(st) == {h.name : h \in st.hoifs}

IpOf(st, n) == (CHOOSE h \in st.hoifs : h.name = n).ip

WithIface(hs, n, a) == {h \in hs : h.name # n} \cup {[name |-> n, ip |-> a]}

\* A formatted address read back as an address.
parse(s) == s[1] * Octet + s[2]

BackendFail(op, arg) == Fail(Err("VirtualBoxError", op, arg))

NotFound(op, arg) == Fail(Err("VirtualBoxObjectNotFound", op, arg))

\* network.readHostOnlyInterface(name); fk names this call site in the
\* fault set.
readHostOnlyInterface(st, n, fk, f) ==
  LET op == "readHostOnlyInterface"
      r == IF Faulty(f, fk) THEN BackendFail(op, n)
           ELSE IF n \notin IfNames(st) THEN NotFound(op, n)
           ELSE OK(HoifVal(n, IpOf(st, n)))
  IN Ret(Logged(st, op, n, r), r)

\* network.readDHCP(interface)
readDHCP(st, n, f) ==
  LET r == IF Faulty(f, "readDHCP") THEN BackendFail("readDHCP", n)
           ELSE IF n \notin st.dhcps THEN NotFound("readDHCP", n)
           ELSE OK(DhcpVal(n))
  IN Ret(Logged(st, "readDHCP", n, r), r)

\* network.addHostOnlyInterface(): the backend creates the interface with
\* the lowest free name and returns the name; it fails when it has no name
\* left.
FreeNames(st) == Names \ IfNames(st)

NewName(st) == CHOOSE n \in FreeNames(st) : \A m \in FreeNames(st) : n <= m

addHostOnlyInterface(st, f) ==
  IF Faulty(f, "addHostOnlyInterface") \/ FreeNames(st) = {}
  THEN LET r == BackendFail("addHostOnlyInterface", None)
       IN Ret(Logged(st, "addHostOnlyInterface", None, r), r)
  ELSE LET n == NewName(st)
           r == OK(NameVal(n))
           s1 == [st EXCEPT !.hoifs = WithIface(@, n, UnconfiguredIP)]
       IN Ret(Logged(s1, "addHostOnlyInterface", n, r), r)

\* network.configureHostOnlyInterface(iface, ip, netmask)
configureHostOnlyInterface(st, n, ip, f) ==
  IF Faulty(f, "configureHostOnlyInterface") \/ n \notin IfNames(st)
  THEN LET r == BackendFail("configureHostOnlyInterface", n)
       IN Ret(Logged(st, "configureHostOnlyInterface", n, r), r)
  ELSE LET r == OK(NameVal(n))
           s1 == [st EXCEPT !.hoifs = WithIface(@, n, parse(ip))]
       IN Ret(Logged(s1, "configureHostOnlyInterface", n, r), r)

\* network.removeDHCP(interface): carries the interface name on success,
\* the value the recovery at its call site substitutes.
removeDHCP(st, n, f) ==
  IF Faulty(f, "removeDHCP")
  THEN LET r == BackendFail("removeDHCP", n)
       IN Ret(Logged(st, "removeDHCP", n, r), r)
  ELSE IF n \notin st.dhcps
  THEN LET r == NotFound("removeDHCP", n)
       IN Ret(Logged(st, "removeDHCP", n, r), r)
  ELSE LET r == OK(NameVal(n))
           s1 == [st EXCEPT !.dhcps = @ \ {n}]
       IN Ret(Logged(s1, "removeDHCP", n, r), r)

\* network.addDHCP(interface, gateway, netmask, lowerIP, upperIP)
addDHCP(st, n, f) ==
  IF Faulty(f, "addDHCP")
  THEN LET r == BackendFail("addDHCP", n)
       IN Ret(Logged(st, "addDHCP", n, r), r)
  ELSE LET r == OK(DhcpVal(n))
           s1 == [st EXCEPT !.dhcps = @ \cup {n}]
       IN Ret(Logged(s1, "addDHCP", n, r), r)

\* machine.start(uuid): powers the machine on; the driver keeps no state of
\* it.
start(st, uuid, f) ==
  IF Faulty(f, "start")
  THEN LET r == Fail(Err("VirtualBoxError", "start", uuid))
       IN Ret(Logged(st, "start", uuid, r), r)
  ELSE LET r == OK(NoVal)
       IN Ret(Logged(st, "start", uuid, r), r)

\* machine.suspend / halt / terminate / delete (uuid): one backend call
\* each, which succeeds or fails; the driver keeps no state of the machine.
suspend(st, uuid, f) ==
  LET r == IF Faulty(f, "suspend") THEN BackendFail("suspend", uuid) ELSE OK(NoVal)
  IN Ret(Logged(st, "suspend", uuid, r), r)

halt(st, uuid, f) ==
  LET r == IF Faulty(f, "halt") THEN BackendFail("halt", uuid) ELSE OK(NoVal)
  IN Ret(Logged(st, "halt", uuid, r), r)

terminate(st, uuid, f) ==
  LET r == IF Faulty(f, "terminate") THEN BackendFail("terminate", uuid) ELSE OK(NoVal)
  IN Ret(Logged(st, "terminate", uuid, r), r)

delete(st, uuid, f) ==
  LET r == IF Faulty(f, "delete") THEN BackendFail("delete", uuid) ELSE OK(NoVal)
  IN Ret(Logged(st, "delete", uuid, r), r)

\* A backend status string and an engine state as Python values.
StatusVal(s) == [kind |-> "status", name |-> None, ip |-> 0, state |-> s]

StateVal(s) == [kind |-> "state", name |-> None, ip |-> 0, state |-> s]

\* machine.readMachineState(uuid): the status is the backend's, which
\* changes it on its own (starting, saving, aborted, ...); a read may find
\* the machine in any of them.
readMachineState(st, uuid, status, f) ==
  LET r == IF Faulty(f, "readMachineState") THEN BackendFail("readMachineState", uuid)
           ELSE OK(StatusVal(status))
  IN Ret(Logged(st, "readMachineState", uuid, r), r)

\* Config.loadConfigFile(): replaces the in-memory keys by the file's.
NoFile == [exists |-> FALSE, network |-> NoCidr, interface |-> None]

loadConfigFile(st, f) ==
  IF Faulty(f, "loadConfigFile")
  THEN LET r == Fail(Err("ConfigSyntaxError", "loadConfigFile", 0))
       IN Ret(Logged(st, "loadConfigFile", 0, r), r)
  ELSE IF ~st.disk.exists
  THEN LET r == Fail(Err("FileDoesNotExist", "loadConfigFile", 0))
       IN Ret(Logged(st, "loadConfigFile", 0, r), r)
  ELSE LET r == OK(NoVal)
           s1 == [st EXCEPT !.cfg = [network |-> st.disk.network,
                                     interface |-> st.disk.interface]]
       IN Ret(Logged(s1, "loadConfigFile", 0, r), r)

\* Config.saveConfig(): writes the in-memory keys to the file.
saveConfig(st, f) ==
  IF Faulty(f, "saveConfig")
  THEN LET r == Fail(Err("ConfigWriteError", "saveConfig", 0))
       IN Ret(Logged(st, "saveConfig", 0, r), r)
  ELSE LET r == OK(NoVal)
           s1 == [st EXCEPT !.disk = [exists |-> TRUE, network |-> st.cfg.network,
                                      interface |-> st.cfg.interface]]
       IN Ret(Logged(s1, "saveConfig", 0, r), r)

\* Config.set(key, value)
setNetwork(st, cidr) ==
  LET s1 == [st EXCEPT !.cfg.network = cidr]
  IN [s1 EXCEPT !.calls = Append(@, [op |-> "set.network", arg |-> cidr.addr, out |-> "OK"])]

setInterface(st, n) ==
  LET s1 == [st EXCEPT !.cfg.interface = n]
  IN [s1 EXCEPT !.calls = Append(@, [op |-> "set.interface", arg |-> n, out |-> "OK"])]

\* ------------------------------------------------------- the driver: config
\* Variant: the defaults are set and not saved.
makeDefaultConfig_NoSave(st, f) ==
  Ret(setInterface(setNetwork(st, DefaultNetwork), None), OK(NoVal))

\* makeDefaultConfig: set every default key, then save.
makeDefaultConfig(st, f) ==
  saveConfig(setInterface(setNetwork(st, DefaultNetwork), None), f)

\* Variant: every failure of the load is recovered from with the defaults.
assertConfig_UntypedCatch(st, f) ==
  LET l == loadConfigFile(st, f)
  IN IF isFail(l.r) THEN makeDefaultConfig(l.st, f) ELSE l

\* assertConfig: loadConfigFile().catchError(FileDoesNotExist, makeDefaultConfig)
assertConfig(st, f) ==
  LET l == loadConfigFile(st, f)
  IN IF isFail(l.r) /\ l.r.err.kind = "FileDoesNotExist"
     THEN makeDefaultConfig(l.st, f)
     ELSE l

\* ---------------------------------------------------- the driver: networking
getNetworkInterface(st) == st.cfg.interface

\* readNetworkConfig: IPNetwork raises on a missing `network` key.
readNetworkConfig(st) ==
  IF st.cfg.network = NoCidr
  THEN Raise("AddrFormatError", "readNetworkConfig")
  ELSE [tag |-> "OK",
        val |-> [gateway |-> format(IPNetworkAt(st.cfg.network, 1)),
                 netmask |-> format(IPNetworkNetmask(st.cfg.network)),
                 lowerIP |-> format(IPNetworkAt(st.cfg.network, 2)),
                 upperIP |-> format(IPNetworkAt(st.cfg.network, 0 - 1))],
        err |-> NoErr]

\* saveInterface: set the key, then save.
saveInterface(st, iface, f) == saveConfig(setInterface(st, iface), f)

\* Variant: provisionDHCP reports Success whatever its chain ended in.
provisionDHCPReturn_AlwaysOK(chain) == OK(NoVal)

\* What provisionDHCP hands back to its caller, given the outcome of its
\* remove/add chain: the method has no return statement.
provisionDHCPReturn(chain) == PyNone

\* provisionDHCP: removeDHCP(interface).catch(OK(interface)).bind(addDHCP)
provisionDHCP(st, interface, netconfig, f) ==
  LET rm == removeDHCP(st, interface, f)
      c == catch(rm.r, OK(NameVal(interface)))
      ad == IF c.tag = "OK" THEN addDHCP(rm.st, c.val.name, f) ELSE Ret(rm.st, c)
  IN Ret(ad.st, provisionDHCPReturn(ad.r))

\* Variant: the chain works on the interface the configuration names, when
\* it names one, instead of the interface just added.
provisionNetworking_OnConfigured(st, netconfig, f) ==
  LET ifm == addHostOnlyInterface(st, f)
  IN IF isFail(ifm.r) THEN ifm
     ELSE
       LET iface == IF Truthy(getNetworkInterface(st)) THEN getNetworkInterface(st)
                    ELSE ifm.r.val.name
           c == configureHostOnlyInterface(ifm.st, iface, netconfig.gateway, f)
       IN IF isFail(c.r) THEN c
          ELSE
            LET d == provisionDHCP(c.st, iface, netconfig, f)
                dr == ChainOn(d.r)
            IN IF dr.tag # "OK" THEN Ret(d.st, dr)
               ELSE
                 LET s == saveInterface(d.st, iface, f)
                 IN IF isFail(s.r) THEN s
                    ELSE readHostOnlyInterface(s.st, iface, "readBack", f)

\* provisionNetworking: add, then the chain configure / provisionDHCP /
\* saveInterface / readHostOnlyInterface, each link run only on the
\* success of the one before.
provisionNetworking(st, netconfig, f) ==
  LET ifm == addHostOnlyInterface(st, f)
  IN IF isFail(ifm.r) THEN ifm
     ELSE
       LET iface == ifm.r.val.name
           c == configureHostOnlyInterface(ifm.st, iface, netconfig.gateway, f)
       IN IF isFail(c.r) THEN c
          ELSE
            LET d == provisionDHCP(c.st, iface, netconfig, f)
                dr == ChainOn(d.r)
            IN IF dr.tag # "OK" THEN Ret(d.st, dr)
               ELSE
                 LET s == saveInterface(d.st, iface, f)
                 IN IF isFail(s.r) THEN s
                    ELSE readHostOnlyInterface(s.st, iface, "readBack", f)

\* Variant: the address of the interface is not compared with the gateway.
assertNetworkConfiguration_NoGatewayCheck(st, netparts, f) ==
  LET netconfig == netparts[1]
      hoif == netparts[2]
      dhcp == netparts[3]
  IN IF IsNone(hoif) THEN provisionNetworking(st, netconfig, f)
     ELSE IF IsNone(dhcp) THEN provisionDHCP(st, hoif.name, netconfig, f)
     ELSE Ret(st, OK(hoif))

\* Variant: a missing DHCP service re-provisions the whole network.
assertNetworkConfiguration_DhcpReprovisions(st, netparts, f) ==
  LET netconfig == netparts[1]
      hoif == netparts[2]
      dhcp == netparts[3]
  IN IF IsNone(hoif) THEN provisionNetworking(st, netconfig, f)
     ELSE IF format(hoif.ip) # netconfig.gateway THEN provisionNetworking(st, netconfig, f)
     ELSE IF IsNone(dhcp) THEN provisionNetworking(st, netconfig, f)
     ELSE Ret(st, OK(hoif))

\* Variant: the test for a missing DHCP service is inverted.
assertNetworkConfiguration_DhcpTestInverted(st, netparts, f) ==
  LET netconfig == netparts[1]
      hoif == netparts[2]
      dhcp == netparts[3]
  IN IF IsNone(hoif) THEN provisionNetworking(st, netconfig, f)
     ELSE IF format(hoif.ip) # netconfig.gateway THEN provisionNetworking(st, netconfig, f)
     ELSE IF ~IsNone(dhcp) THEN provisionDHCP(st, hoif.name, netconfig, f)
     ELSE Ret(st, OK(hoif))

\* assertNetworkConfiguration((netconfig, hoif, dhcp))
assertNetworkConfiguration(st, netparts, f) ==
  LET netconfig == netparts[1]
      hoif == netparts[2]
      dhcp == netparts[3]
  IN IF IsNone(hoif) THEN provisionNetworking(st, netconfig, f)
     ELSE IF format(hoif.ip) # netconfig.gateway THEN provisionNetworking(st, netconfig, f)
     ELSE IF IsNone(dhcp) THEN provisionDHCP(st, hoif.name, netconfig, f)
     ELSE Ret(st, OK(hoif))

\* Variant: the reads recover from every error, not only ObjectNotFound.
assertNetworking_UntypedCatch(st, f) ==
  LET interface == getNetworkInterface(st)
      netconfig == readNetworkConfig(st)
  IN IF netconfig.tag = "Raise" THEN Ret(st, netconfig)
     ELSE IF Truthy(interface)
     THEN LET a == readHostOnlyInterface(st, interface, "readHostOnlyInterface", f)
              hoif == catch(a.r, OK(NoVal))
              b == readDHCP(a.st, interface, f)
              dhcp == catch(b.r, OK(NoVal))
              sq == sequence(<<netconfig, hoif, dhcp>>)
          IN IF sq.tag = "OK" THEN assertNetworkConfiguration(b.st, sq.val, f)
             ELSE Ret(b.st, sq)
     ELSE provisionNetworking(st, netconfig.val, f)

\* Variant: the DHCP read comes before the interface read in the sequence.
assertNetworking_DhcpFirst(st, f) ==
  LET interface == getNetworkInterface(st)
      netconfig == readNetworkConfig(st)
  IN IF netconfig.tag = "Raise" THEN Ret(st, netconfig)
     ELSE IF Truthy(interface)
     THEN LET a == readHostOnlyInterface(st, interface, "readHostOnlyInterface", f)
              hoif == catchError(a.r, "VirtualBoxObjectNotFound", OK(NoVal))
              b == readDHCP(a.st, interface, f)
              dhcp == catchError(b.r, "VirtualBoxObjectNotFound", OK(NoVal))
              sq == sequence(<<netconfig, dhcp, hoif>>)
          IN IF sq.tag = "OK"
             THEN assertNetworkConfiguration(b.st, <<sq.val[1], sq.val[3], sq.val[2]>>, f)
             ELSE Ret(b.st, sq)
     ELSE provisionNetworking(st, netconfig.val, f)

\* Variant: the DHCP read is skipped when the interface read failed.
assertNetworking_ShortCircuit(st, f) ==
  LET interface == getNetworkInterface(st)
      netconfig == readNetworkConfig(st)
  IN IF netconfig.tag = "Raise" THEN Ret(st, netconfig)
     ELSE IF Truthy(interface)
     THEN LET a == readHostOnlyInterface(st, interface, "readHostOnlyInterface", f)
              hoif == catchError(a.r, "VirtualBoxObjectNotFound", OK(NoVal))
          IN IF isFail(hoif) THEN Ret(a.st, hoif)
             ELSE
               LET b == readDHCP(a.st, interface, f)
                   dhcp == catchError(b.r, "VirtualBoxObjectNotFound", OK(NoVal))
                   sq == sequence(<<netconfig, hoif, dhcp>>)
               IN IF sq.tag = "OK" THEN assertNetworkConfiguration(b.st, sq.val, f)
                  ELSE Ret(b.st, sq)
     ELSE provisionNetworking(st, netconfig.val, f)

\* assertNetworking
assertNetworking(st, f) ==
  LET interface == getNetworkInterface(st)
      netconfig == readNetworkConfig(st)
  IN IF netconfig.tag = "Raise" THEN Ret(st, netconfig)
     ELSE IF Truthy(interface)
     THEN LET a == readHostOnlyInterface(st, interface, "readHostOnlyInterface", f)
              hoif == catchError(a.r, "VirtualBoxObjectNotFound", OK(NoVal))
              b == readDHCP(a.st, interface, f)
              dhcp == catchError(b.r, "VirtualBoxObjectNotFound", OK(NoVal))
              sq == sequence(<<netconfig, hoif, dhcp>>)
          IN IF sq.tag = "OK" THEN assertNetworkConfiguration(b.st, sq.val, f)
             ELSE Ret(b.st, sq)
     ELSE provisionNetworking(st, netconfig.val, f)

\* ------------------------------------------------------ the driver: machines
\* startMachine: assertConfig().then(assertNetworking).then(start(uuid)).
\* The record keeps what each stage returned.
Stages(x, rConfig, rNet) == [st |-> x.st, r |-> x.r, rConfig |-> rConfig, rNet |-> rNet]

\* Variant: the start call does not wait on the outcome of assertNetworking.
thenStart_IgnoresNetworking(c, n, uuid, f) == Stages(start(n.st, uuid, f), c.r, n.r)

\* .then(defer(machine.start, uuid)) on what assertNetworking returned.
thenStart(c, n, uuid, f) ==
  IF ChainOn(n.r).tag # "OK"
  THEN Stages(Ret(n.st, ChainOn(n.r)), c.r, n.r)
  ELSE Stages(start(n.st, uuid, f), c.r, n.r)

\* .then(self.assertNetworking) on what assertConfig returned.
thenAssertNetworking(c, uuid, f) ==
  IF c.r.tag # "OK"
  THEN Stages(c, c.r, NotCalled)
  ELSE thenStart(c, assertNetworking(c.st, f), uuid, f)

startMachine(st, uuid, f) == thenAssertNetworking(assertConfig(st, f), uuid, f)

\* Variant: suspendMachine asserts the configuration first, as startMachine
\* does.
suspendMachine_AssertsConfig(st, uuid, f) ==
  IF assertConfig(st, f).r.tag # "OK" THEN assertConfig(st, f)
  ELSE suspend(assertConfig(st, f).st, uuid, f)

\* suspendMachine, haltMachine, terminateMachine, deleteMachine: return
\* what the backend call returns.
suspendMachine(st, uuid, f) == suspend(st, uuid, f)

haltMachine(st, uuid, f) == halt(st, uuid, f)

terminateMachine(st, uuid, f) == terminate(st, uuid, f)

deleteMachine(st, uuid, f) == delete(st, uuid, f)

\* substance.constants.EngineStates
EngineStates == {"RUNNING", "STOPPED", "SUSPENDED", "UNKNOWN", "INEXISTENT"}

\* The lookup table of vboxStateToMachineState, as <<status, state>> pairs.
mapping ==
  {<<"poweroff", "STOPPED">>, <<"saved", "SUSPENDED">>, <<"aborted", "STOPPED">>,
   <<"paused", "STOPPED">>, <<"stuck", "STOPPED">>, <<"restoring", "STOPPED">>,
   <<"snapshotting", "STOPPED">>, <<"setting up", "STOPPED">>,
   <<"online snapshotting", "STOPPED">>, <<"restoring snapshot", "STOPPED">>,
   <<"deleting snapshot", "STOPPED">>, <<"running", "RUNNING">>,
   <<"starting", "RUNNING">>, <<"stopping", "RUNNING">>, <<"saving", "RUNNING">>,
   <<"live snapshotting", "RUNNING">>, <<"unknown", "UNKNOWN">>,
   <<"inaccessible", "INEXISTENT">>, <<"inexistent", "INEXISTENT">>}

\* mapping.get(key, default)
mappingGet(key, default) ==
  IF \E p \in mapping : p[1] = key
  THEN (CHOOSE p \in mapping : p[1] = key)[2]
  ELSE default

\* Variant: the table is indexed, mapping[vboxState], and a status it does
\* not hold is an error.
vboxStateToMachineState_NoDefault(vboxState) ==
  IF \E p \in mapping : p[1] = vboxState
  THEN OK(StateVal(mappingGet(vboxState, "UNKNOWN")))
  ELSE Fail(Err("KeyError", "vboxStateToMachineState", 0))

\* vboxStateToMachineState
vboxStateToMachineState(vboxState) == OK(StateVal(mappingGet(vboxState, "UNKNOWN")))

\* getMachineState: readMachineState(uuid).bind(vboxStateToMachineState)
getMachineState(st, uuid, status, f) ==
  LET rd == readMachineState(st, uuid, status, f)
  IN IF rd.r.tag = "OK" THEN Ret(rd.st, vboxStateToMachineState(rd.r.val.state))
     ELSE rd

\* Python's `x is y` with y a member of EngineStates: x is that very
\* object.  What getMachineState returns is a Try, never a member.
Is(x, state) == x.tag = "EngineState" /\ x.val.state = state

PyTrue == [tag |-> "True", val |-> NoVal, err |-> NoErr]

\* isRunning, isStopped, isSuspended: `if ...: return True`, and None when
\* the test fails.
isRunning(st, uuid, status, f) ==
  LET g == getMachineState(st, uuid, status, f)
  IN Ret(g.st, IF Is(g.r, "RUNNING") THEN PyTrue ELSE PyNone)

isStopped(st, uuid, status, f) ==
  LET g == getMachineState(st, uuid, status, f)
  IN Ret(g.st, IF ~Is(g.r, "RUNNING") THEN PyTrue ELSE PyNone)

isSuspended(st, uuid, status, f) ==
  LET g == getMachineState(st, uuid, status, f)
  IN Ret(g.st, IF Is(g.r, "SUSPENDED") THEN PyTrue ELSE PyNone)

\* --------------------------------------------------------- the state machine
\* The collaborator calls that can be made to fail in one run of a method.
FaultKeys ==
  {"loadConfigFile", "saveConfig", "readHostOnlyInterface", "readDHCP",
   "addHostOnlyInterface", "configureHostOnlyInterface", "removeDHCP", "addDHCP",
   "readBack", "start"}

FaultSets == {f \in SUBSET FaultKeys : Cardinality(f) <= MaxFaults}

NetFaultSets == {f \in FaultSets : f \cap {"loadConfigFile", "start"} = {}}

\* The state a method starts from: the variables and an empty call log.
Now ==
  [cfg |-> cfg, disk |-> disk, hoifs |-> hoifs, dhcps |-> dhcps, calls |-> <<>>]

Pre == [cfg |-> cfg, disk |-> disk, hoifs |-> hoifs, dhcps |-> dhcps]

\* What last keeps of the pass before, when a method is invoked again on
\* the result of the previous invocation; NoPrev when it is not.
NoPrev ==
  [op |-> "none",
   pre |-> [cfg |-> [network |-> NoCidr, interface |-> None], disk |-> NoFile,
            hoifs |-> {}, dhcps |-> {}],
   calls |-> <<>>, r |-> NotCalled]

\* The status the machine backend answered with, when the method read one.
NoStatus == "none"

\* The driver is idle: no method has returned a result that its caller has
\* yet to take.
NoLast ==
  [op |-> "none", arg |-> 0,
   pre |-> [cfg |-> [network |-> NoCidr, interface |-> None], disk |-> NoFile,
            hoifs |-> {}, dhcps |-> {}],
   calls |-> <<>>, r |-> NotCalled, rConfig |-> NotCalled, rNet |-> NotCalled,
   status |-> NoStatus, prev |-> NoPrev]

Idle == last.op = "none"

\* The variables after a method that ended in state x.st.
Sets(x) ==
  /\ cfg' = x.st.cfg
  /\ disk' = x.st.disk
  /\ hoifs' = x.st.hoifs
  /\ dhcps' = x.st.dhcps

\* last records the method, its argument, the state it started from, its
\* calls and results.
Becomes(x, op, arg) ==
  /\ Idle
  /\ Sets(x)
  /\ last' = [op |-> op, arg |-> arg, pre |-> Pre, calls |-> x.st.calls,
              r |-> x.r, rConfig |-> x.rConfig, rNet |-> x.rNet,
              status |-> NoStatus, prev |-> NoPrev]

DiskFiles ==
  {NoFile} \cup
  [exists : {TRUE}, network : CIDRs, interface : Names \cup {None}]

\* After construction the Config object holds no key; the file and the
\* backend are whatever earlier runs and the user left.
Init ==
  /\ cfg = [network |-> NoCidr, interface |-> None]
  /\ disk \in DiskFiles
  /\ hoifs = {}
  /\ dhcps = {}
  /\ last = NoLast

StartMachine ==
  \E uuid \in UUIDs, f \in FaultSets :
    Becomes(startMachine(Now, uuid, f), "startMachine", uuid)

AssertConfig ==
  \E f \in FaultSets :
    /\ f \subseteq {"loadConfigFile", "saveConfig"}
    /\ Becomes(Stages(assertConfig(Now, f), NotCalled, NotCalled), "assertConfig", 0)

AssertNetworking ==
  \E f \in NetFaultSets :
    Becomes(Stages(assertNetworking(Now, f), NotCalled, NotCalled), "assertNetworking", 0)

ProvisionDHCP ==
  \E n \in Names, f \in NetFaultSets :
    /\ f \subseteq {"removeDHCP", "addDHCP"}
    /\ readNetworkConfig(Now).tag = "OK"
    /\ Becomes(Stages(provisionDHCP(Now, n, readNetworkConfig(Now).val, f),
                       NotCalled, NotCalled), "provisionDHCP", n)

\* What happens to the backend outside the driver: the user changes the
\* address of an interface, deletes an interface (its DHCP binding stays
\* behind), or adds or removes a DHCP binding.
EnvKeep == /\ Idle
           /\ UNCHANGED <<cfg, disk, last>>

EnvDriftInterface ==
  \E h \in hoifs, a \in GatewayIPs :
    /\ h.ip # a
    /\ hoifs' = WithIface(hoifs, h.name, a)
    /\ UNCHANGED dhcps
    /\ EnvKeep

EnvDeleteInterface ==
  \E h \in hoifs :
    /\ hoifs' = hoifs \ {h}
    /\ UNCHANGED dhcps
    /\ EnvKeep

EnvSetDHCP ==
  \E n \in Names :
    /\ dhcps' = (IF n \in dhcps THEN dhcps \ {n} ELSE dhcps \cup {n})
    /\ UNCHANGED hoifs
    /\ EnvKeep

\* The caller takes the result of the method that returned.
Return ==
  /\ ~Idle
  /\ last' = NoLast
  /\ UNCHANGED <<cfg, disk, hoifs, dhcps>>

Next ==
  \/ Return
  \/ StartMachine
  \/ AssertConfig
  \/ AssertNetworking
  \/ ProvisionDHCP
  \/ EnvDriftInterface
  \/ EnvDeleteInterface
  \/ EnvSetDHCP

Spec == Init /\ [][Next]_vars

\* The caller invokes assertNetworking again on the result of a pass, with
\* nothing happening in between (the outcome primitive never retries: the
\* caller does, by invoking the chain again).  last keeps the first pass
\* under prev.
Again(x) ==
  /\ Sets(x)
  /\ last' = [op |-> "assertNetworking", arg |-> 0, pre |-> Pre,
              calls |-> x.st.calls, r |-> x.r,
              rConfig |-> NotCalled, rNet |-> NotCalled, status |-> NoStatus,
              prev |-> [op |-> last.op, pre |-> last.pre,
                        calls |-> last.calls, r |-> last.r]]

AssertNetworkingAgain ==
  \E f \in NetFaultSets :
    /\ last.op = "assertNetworking"
    /\ last.prev.op = "none"
    /\ Again(assertNetworking(Now, f))

\* Reconciliation passes, repeated, on a backend that changes out-of-band.
NextRetry ==
  \/ Return
  \/ AssertConfig
  \/ AssertNetworking
  \/ AssertNetworkingAgain
  \/ EnvDriftInterface
  \/ EnvDeleteInterface
  \/ EnvSetDHCP

SpecRetry == Init /\ [][NextRetry]_vars

\* Try.sequence applied to every short tuple of outcomes: successes carrying
\* a name and failures of two kinds.
MaxSeqLen == 3

SeqOutcomes ==
  {OK(NameVal(n)) : n \in Names} \cup
  {BackendFail("first", 0), NotFound("second", 0)}

SeqInputs == UNION {[1..n -> SeqOutcomes] : n \in 0..MaxSeqLen}

Sequence ==
  \E rs \in SeqInputs :
    /\ Idle
    /\ last' = [op |-> "sequence", arg |-> 0, pre |-> Pre, calls |-> <<>>,
                r |-> sequence(rs), rConfig |-> NotCalled, rNet |-> NotCalled,
                status |-> NoStatus, prev |-> NoPrev, input |-> rs]
    /\ UNCHANGED <<cfg, disk, hoifs, dhcps>>

\* The aggregation by itself and at its call site in assertNetworking.
NextSequence ==
  \/ Return
  \/ Sequence
  \/ AssertConfig
  \/ AssertNetworking

SpecSequence == Init /\ [][NextSequence]_vars

\* The statuses a read of the machine backend may answer with: the ones of
\* the lookup table and two it does not hold.
VBoxStatuses == {p[1] : p \in mapping} \cup {"some-unlisted-status", "gurumeditation"}

\* A method that read the machine's status: last records the status read.
Reads(x, op, arg, status) ==
  /\ Idle
  /\ Sets(x)
  /\ last' = [op |-> op, arg |-> arg, pre |-> Pre, calls |-> x.st.calls,
              r |-> x.r, rConfig |-> NotCalled, rNet |-> NotCalled,
              status |-> status, prev |-> NoPrev]

SuspendMachine ==
  \E uuid \in UUIDs, f \in SUBSET {"suspend"} :
    Becomes(Stages(suspendMachine(Now, uuid, f), NotCalled, NotCalled),
            "suspendMachine", uuid)

HaltMachine ==
  \E uuid \in UUIDs, f \in SUBSET {"halt"} :
    Becomes(Stages(haltMachine(Now, uuid, f), NotCalled, NotCalled),
            "haltMachine", uuid)

TerminateMachine ==
  \E uuid \in UUIDs, f \in SUBSET {"terminate"} :
    Becomes(Stages(terminateMachine(Now, uuid, f), NotCalled, NotCalled),
            "terminateMachine", uuid)

DeleteMachine ==
  \E uuid \in UUIDs, f \in SUBSET {"delete"} :
    Becomes(Stages(deleteMachine(Now, uuid, f), NotCalled, NotCalled),
            "deleteMachine", uuid)

GetMachineState ==
  \E uuid \in UUIDs, status \in VBoxStatuses, f \in SUBSET {"readMachineState"} :
    Reads(getMachineState(Now, uuid, status, f), "getMachineState", uuid, status)

IsRunning ==
  \E uuid \in UUIDs, status \in VBoxStatuses, f \in SUBSET {"readMachineState"} :
    Reads(isRunning(Now, uuid, status, f), "isRunning", uuid, status)

IsStopped ==
  \E uuid \in UUIDs, status \in VBoxStatuses, f \in SUBSET {"readMachineState"} :
    Reads(isStopped(Now, uuid, status, f), "isStopped", uuid, status)

IsSuspended ==
  \E uuid \in UUIDs, status \in VBoxStatuses, f \in SUBSET {"readMachineState"} :
    Reads(isSuspended(Now, uuid, status, f), "isSuspended", uuid, status)

\* The machine operations other than start, on a driver whose
\* configuration is loaded or not.
NextMachine ==
  \/ Return
  \/ AssertConfig
  \/ SuspendMachine
  \/ HaltMachine
  \/ TerminateMachine
  \/ DeleteMachine
  \/ GetMachineState
  \/ IsRunning
  \/ IsStopped
  \/ IsSuspended

SpecMachine == Init /\ [][NextMachine]_vars

\* ------------------------------------------------------ reading the record
\* The positions in the last method's call log of the calls of op.
Calls(op) == {i \in DOMAIN last.calls : last.calls[i].op = op}

Issued(op) == Calls(op) # {}

Count(op) == Cardinality(Calls(op))

CallsOn(op, n) == {i \in Calls(op) : last.calls[i].arg = n}

\* The calls that change the backend, and the ones that write configuration.
MutatingOps ==
  {"addHostOnlyInterface", "configureHostOnlyInterface", "removeDHCP", "addDHCP"}

ConfigWrites == {"set.network", "set.interface", "saveConfig"}

NoMutation == \A i \in DOMAIN last.calls : last.calls[i].op \notin MutatingOps

NoConfigWrite == \A i \in DOMAIN last.calls : last.calls[i].op \notin ConfigWrites

\* A call that ended in a genuine failure; "not found" is an answer.
Failed(i) == last.calls[i].out \notin {"OK", "VirtualBoxObjectNotFound"}

NoFailure == \A i \in DOMAIN last.calls : ~Failed(i)

\* How the first call of op ended.
OutOf(op) == last.calls[CHOOSE i \in Calls(op) : \A j \in Calls(op) : i <= j].out

\* assertNetworking ran with a usable config; what it saw when it began.
RanNet == last.op = "assertNetworking" /\ last.pre.cfg.network # NoCidr

PreIface == last.pre.cfg.interface

PreGateway == readNetworkConfig(last.pre).val.gateway

PrePresent(n) == \E h \in last.pre.hoifs : h.name = n

PreIp(n) == (CHOOSE h \in last.pre.hoifs : h.name = n).ip

\* The interface add-interface created in the last method.
NewIface == last.calls[CHOOSE i \in Calls("addHostOnlyInterface") : TRUE].arg

\* The same readings of the pass before, when the method was invoked again.
Retried == last.op = "assertNetworking" /\ last.prev.op = "assertNetworking"

PrevCalls(op) == {i \in DOMAIN last.prev.calls : last.prev.calls[i].op = op}

PrevOutOf(op) ==
  last.prev.calls[CHOOSE i \in PrevCalls(op) : \A j \in PrevCalls(op) : i <= j].out

PrevFailed(op) ==
  PrevCalls(op) # {} /\ PrevOutOf(op) \notin {"OK", "VirtualBoxObjectNotFound"}

PrevIface == last.prev.pre.cfg.interface

\* The interface add-interface created in the pass before.
PrevNewIface ==
  last.prev.calls[CHOOSE i \in PrevCalls("addHostOnlyInterface") : TRUE].arg

\* ------------------------------------------------------------------ claims
\* C1: startMachine issues machine.start only after assertConfig and
\* assertNetworking have both returned Success, and as its last call; it
\* never issues it when either returned Failure.
C1_StartOnlyAfterBothSucceed ==
  last.op = "startMachine" =>
    /\ Issued("start") => last.rConfig.tag = "OK" /\ last.rNet.tag = "OK"
    /\ \A i \in Calls("start") : i = Len(last.calls)
    /\ last.rConfig.tag = "Fail" => ~Issued("start") /\ last.rNet = NotCalled
    /\ last.rNet.tag = "Fail" => ~Issued("start")

C1_Witness ==
  /\ last.op = "startMachine"
  /\ last.rConfig.tag = "OK"
  /\ last.rNet.tag = "Fail"
  /\ ~Issued("start")

\* The other case of C1: assertConfig itself fails.
C1_WitnessConfigFails ==
  /\ last.op = "startMachine"
  /\ last.rConfig.tag = "Fail"
  /\ ~Issued("start")

\* C2: whenever startMachine issues machine.start, the interface the config
\* key `interface` names exists in the backend, its address is the gateway
\* of the configured range, and a DHCP service is bound to it.
C2_StartedOnConvergedNetwork ==
  last.op = "startMachine" /\ Issued("start") =>
    /\ Truthy(cfg.interface)
    /\ cfg.interface \in IfNames(Now)
    /\ format(IpOf(Now, cfg.interface)) = readNetworkConfig(Now).val.gateway
    /\ cfg.interface \in dhcps

C2_Witness ==
  /\ last.op = "startMachine"
  /\ Issued("start")
  /\ OutOf("start") = "OK"

\* C3: cold start.  With no interface recorded and no backend or config call
\* failing, assertNetworking adds one interface, configures it once,
\* provisions DHCP once, sets and saves the new name under `interface`, and
\* returns Success carrying the interface read back.
C3_ColdStartProvisionsOnce ==
  RanNet /\ ~Truthy(PreIface) /\ NoFailure =>
    /\ Count("addHostOnlyInterface") = 1
    /\ Count("configureHostOnlyInterface") = 1
    /\ Count("addDHCP") = 1
    /\ Count("set.interface") = 1
    /\ Count("saveConfig") = 1
    /\ cfg.interface = NewIface
    /\ disk.interface = NewIface
    /\ last.r.tag = "OK"
    /\ last.r.val = HoifVal(NewIface, IpOf(Now, NewIface))

\* The steps of the provision path whose failure ends it, and the positions
\* in the call log where one of them failed.
ProvisionSteps ==
  {"addHostOnlyInterface", "configureHostOnlyInterface", "addDHCP", "saveConfig"}

FailedSteps == {i \in DOMAIN last.calls : last.calls[i].op \in ProvisionSteps /\ Failed(i)}

C5_ProvisionDHCPReturnsAddOutcome ==
  last.op = "provisionDHCP" =>
    /\ Count("addDHCP") = 1
    /\ OutOf("addDHCP") = "OK" => last.r.tag = "OK"
    /\ OutOf("addDHCP") # "OK" =>
         /\ last.r.tag = "Fail"
         /\ last.r.err = Err(OutOf("addDHCP"), "addDHCP", last.arg)

\* Scenario C: interface present with the gateway address, no DHCP service.
ScenarioC ==
  /\ RanNet
  /\ Truthy(PreIface)
  /\ PrePresent(PreIface)
  /\ format(PreIp(PreIface)) = PreGateway
  /\ OutOf("readHostOnlyInterface") = "OK"
  /\ OutOf("readDHCP") = "VirtualBoxObjectNotFound"

\* C6: DHCP repair only.  When the configured interface is read present with
\* the gateway as its address and the DHCP read reports absence,
\* assertNetworking provisions DHCP on that interface and nothing else: no
\* add-interface, no configure-interface, no call on another interface, no
\* config write.
C6_DhcpRepairOnly ==
  ScenarioC =>
    /\ Count("removeDHCP") = 1
    /\ CallsOn("removeDHCP", PreIface) = Calls("removeDHCP")
    /\ CallsOn("addDHCP", PreIface) = Calls("addDHCP")
    /\ ~Issued("addHostOnlyInterface")
    /\ ~Issued("configureHostOnlyInterface")
    /\ NoConfigWrite
    /\ cfg = last.pre.cfg
    /\ disk = last.pre.disk
    /\ hoifs = last.pre.hoifs

C6_Witness ==
  /\ ScenarioC
  /\ Issued("addDHCP")
  /\ OutOf("addDHCP") = "OK"
  /\ PreIface \in dhcps

\* Scenario B: the read of the recorded interface answers "not found".
ScenarioB ==
  /\ RanNet
  /\ Truthy(PreIface)
  /\ OutOf("readHostOnlyInterface") = "VirtualBoxObjectNotFound"

\* A step of the provision path failed.
ProvisionFailure ==
  \E i \in DOMAIN last.calls :
    /\ last.calls[i].op \in MutatingOps \cup {"saveConfig"}
    /\ Failed(i)

\* C7: interface deleted out-of-band.  When an interface is recorded and its
\* read ends in ObjectNotFound, assertNetworking does not return that
\* Failure: it runs the provision path (add, configure, DHCP, persist, read
\* back) whatever the DHCP read returned, completing it when no step fails.
C7_DeletedInterfaceReprovisioned ==
  ScenarioB =>
    /\ ~(last.r.tag = "Fail" /\ last.r.err.kind = "VirtualBoxObjectNotFound")
    /\ Issued("addHostOnlyInterface")
    /\ ~ProvisionFailure =>
         /\ Issued("configureHostOnlyInterface")
         /\ Issued("addDHCP")
         /\ Issued("set.interface")
         /\ Issued("saveConfig")
         /\ Count("readHostOnlyInterface") = 2
         /\ cfg.interface = NewIface

\* Scenario D: interface present with an address other than the gateway.
ScenarioD ==
  /\ RanNet
  /\ Truthy(PreIface)
  /\ PrePresent(PreIface)
  /\ format(PreIp(PreIface)) # PreGateway
  /\ OutOf("readHostOnlyInterface") = "OK"
  /\ OutOf("readDHCP") \in {"OK", "VirtualBoxObjectNotFound"}

ScenarioConverged ==
  /\ RanNet
  /\ Truthy(PreIface)
  /\ PrePresent(PreIface)
  /\ format(PreIp(PreIface)) = PreGateway
  /\ OutOf("readHostOnlyInterface") = "OK"
  /\ OutOf("readDHCP") = "OK"

\* C9: already converged.  When the configured interface is read present
\* with the gateway as its address and the DHCP read finds a service,
\* assertNetworking returns Success carrying the interface as read, and makes
\* no other call: nothing in the backend or the configuration changes.
C9_ConvergedIsNoOp ==
  ScenarioConverged =>
    /\ last.r = OK(HoifVal(PreIface, PreIp(PreIface)))
    /\ Len(last.calls) = 2
    /\ NoMutation
    /\ NoConfigWrite
    /\ cfg = last.pre.cfg
    /\ disk = last.pre.disk
    /\ hoifs = last.pre.hoifs
    /\ dhcps = last.pre.dhcps

C9_Witness ==
  /\ ScenarioConverged
  /\ last.r.tag = "OK"
  /\ PreIface \in last.pre.dhcps

\* The reads of assertNetworking that failed with another error than
\* "not found".
ReadErrors ==
  {i \in Calls("readHostOnlyInterface") \cup Calls("readDHCP") : Failed(i)}

\* C10: only ObjectNotFound is downgraded.  When an interface is recorded
\* and the interface read or the DHCP read fails with another kind of error,
\* assertNetworking returns the Failure of the first such read unchanged and
\* makes no call beyond the two reads.
C10_OtherReadErrorsPropagate ==
  RanNet /\ Truthy(PreIface) /\ ReadErrors # {} =>
    /\ Len(last.calls) = 2
    /\ NoMutation
    /\ NoConfigWrite
    /\ last.r.tag = "Fail"
    /\ \E i \in ReadErrors :
         /\ \A j \in ReadErrors : i <= j
         /\ last.r.err = Err(last.calls[i].out, last.calls[i].op, PreIface)

C10_Witness ==
  /\ RanNet
  /\ Truthy(PreIface)
  /\ OutOf("readHostOnlyInterface") = "VirtualBoxObjectNotFound"
  /\ OutOf("readDHCP") = "VirtualBoxError"
  /\ last.r = Fail(Err("VirtualBoxError", "readDHCP", PreIface))

\* The outcome of the removeDHCP call of provisionDHCP was a failure of
\* another kind than "not found".
RemoveFailedOtherwise ==
  /\ last.op = "provisionDHCP"
  /\ Issued("removeDHCP")
  /\ OutOf("removeDHCP") \notin {"OK", "VirtualBoxObjectNotFound"}

\* C11: in provisionDHCP only a "not found" failure of removeDHCP counts as
\* success: a removeDHCP failure of another kind is returned as a Failure
\* and addDHCP is not called after it.
C11_OnlyNotFoundToleratedOnRemove ==
  RemoveFailedOtherwise =>
    /\ ~Issued("addDHCP")
    /\ last.r = Fail(Err(OutOf("removeDHCP"), "removeDHCP", last.arg))

\* The pass before added an interface and then ended on the failure of
\* configure-interface or of the DHCP provisioning.
AbortedAfterAdd ==
  /\ Retried
  /\ PrevCalls("addHostOnlyInterface") # {}
  /\ PrevOutOf("addHostOnlyInterface") = "OK"
  /\ PrevFailed("configureHostOnlyInterface") \/ PrevFailed("addDHCP")
  /\ last.prev.r.tag # "OK"

\* C12: after a pass that aborted once add-interface had succeeded (configure
\* or the DHCP provisioning failed), the next assertNetworking pass detects
\* that same interface and repairs it: the configuration references it, both
\* reads name it, and when they answer the pass provisions or repairs DHCP.
C12_NextPassRepairsPartialInterface ==
  AbortedAfterAdd =>
    /\ PreIface = PrevNewIface
    /\ CallsOn("readHostOnlyInterface", PrevNewIface) # {}
    /\ CallsOn("readDHCP", PrevNewIface) # {}
    /\ NoFailure => Issued("addHostOnlyInterface") \/ Issued("removeDHCP")

\* What the code does instead: the key `interface` is what it was before the
\* aborted pass, so the next pass examines the interface the key names (or
\* none); unless the backend gave the partial interface that very name, the
\* next pass makes no call on it and leaves it as the aborted pass left it.
C12_PartialInterfaceStaysUnreferenced ==
  AbortedAfterAdd =>
    /\ last.pre.cfg = last.prev.pre.cfg
    /\ PreIface = PrevIface
    /\ PrevNewIface # PrevIface =>
         /\ \A i \in DOMAIN last.calls : last.calls[i].arg # PrevNewIface
         /\ \E h \in last.pre.hoifs : h.name = PrevNewIface /\ h \in hoifs
         /\ (PrevNewIface \in dhcps) = (PrevNewIface \in last.pre.dhcps)

\* The partial interface is left behind and a second one is added.
C12_PartialInterfaceLeftBehind ==
  /\ AbortedAfterAdd
  /\ PrevFailed("configureHostOnlyInterface")
  /\ PrevNewIface # PrevIface
  /\ Issued("addHostOnlyInterface")
  /\ OutOf("addHostOnlyInterface") = "OK"
  /\ NewIface # PrevNewIface
  /\ \E h \in hoifs : h.name = PrevNewIface /\ h.ip = UnconfiguredIP

\* The backend gave the partial interface the name the configuration
\* recorded, and the next pass reads it.
C12_PartialInterfaceSameName ==
  /\ AbortedAfterAdd
  /\ PrevNewIface = PrevIface
  /\ CallsOn("readHostOnlyInterface", PrevNewIface) # {}

\* The positions in the call log of the calls of config.set, and the call
\* at a position, "none" beyond the ends of the log.
SetCalls == Calls("set.network") \cup Calls("set.interface")

OpAt(i) == IF i \in DOMAIN last.calls THEN last.calls[i].op ELSE "none"

\* C13 as the claim states it: config.set is called only on the
\* provisioning path (saveInterface, after the DHCP of a newly added
\* interface), and every call of it is immediately followed by saveConfig.
C13_OnlyProvisioningSetsConfig ==
  \A i \in SetCalls :
    /\ last.calls[i].op = "set.interface"
    /\ OpAt(i - 1) = "addDHCP"
    /\ OpAt(i + 1) = "saveConfig"

\* C13: config.set is called only by saveInterface on the provisioning path
\* and by makeDefaultConfig when assertConfig finds no config file; the
\* calls of one of the two are followed immediately by saveConfig, before
\* any other backend or config call; without a load or a set the in-memory
\* configuration does not change.
C13_SetsOnlyInDefaultsAndProvisioning ==
  /\ \A i \in Calls("set.network") :
       /\ OpAt(i - 1) = "loadConfigFile"
       /\ last.calls[i - 1].out = "FileDoesNotExist"
       /\ last.calls[i].arg = DefaultNetwork.addr
       /\ OpAt(i + 1) = "set.interface"
       /\ OpAt(i + 2) = "saveConfig"
  /\ \A i \in Calls("set.interface") :
       /\ OpAt(i + 1) = "saveConfig"
       /\ \/ OpAt(i - 1) = "set.network" /\ last.calls[i].arg = None
          \/ OpAt(i - 1) = "addDHCP" /\ last.calls[i].arg = NewIface
  /\ ~Idle /\ SetCalls = {} /\ ~Issued("loadConfigFile") => cfg = last.pre.cfg
  /\ ~Idle /\ ~Issued("saveConfig") => disk = last.pre.disk

C13_Witness ==
  /\ last.op = "assertConfig"
  /\ Len(last.calls) = 4
  /\ OpAt(2) = "set.network"
  /\ OpAt(3) = "set.interface"
  /\ OpAt(4) = "saveConfig"
  /\ cfg # last.pre.cfg
  /\ disk = [exists |-> TRUE, network |-> DefaultNetwork, interface |-> None]

\* The file makeDefaultConfig writes.
DefaultFile == [exists |-> TRUE, network |-> DefaultNetwork, interface |-> None]

\* C14: assertConfig recovers only from a missing config file.  When the
\* load fails with FileDoesNotExist the defaults (network = the default
\* range, interface = absent) are set and saveConfig is called, and the
\* outcome of that save is returned; when it fails with another error that
\* Failure is returned unchanged and nothing is set or saved; when it
\* succeeds nothing is set or saved.
C14_RecoversOnlyFromMissingFile ==
  last.op = "assertConfig" =>
    /\ OpAt(1) = "loadConfigFile"
    /\ OutOf("loadConfigFile") = "FileDoesNotExist" =>
         /\ Len(last.calls) = 4
         /\ OpAt(2) = "set.network" /\ OpAt(3) = "set.interface"
         /\ OpAt(4) = "saveConfig"
         /\ cfg = [network |-> DefaultNetwork, interface |-> None]
         /\ last.calls[4].out = "OK" => last.r.tag = "OK" /\ disk = DefaultFile
         /\ last.calls[4].out # "OK" =>
              /\ last.r = Fail(Err(last.calls[4].out, "saveConfig", 0))
              /\ disk = last.pre.disk
    /\ OutOf("loadConfigFile") \notin {"OK", "FileDoesNotExist"} =>
         /\ Len(last.calls) = 1
         /\ last.r = Fail(Err(OutOf("loadConfigFile"), "loadConfigFile", 0))
         /\ cfg = last.pre.cfg
         /\ disk = last.pre.disk
    /\ OutOf("loadConfigFile") = "OK" =>
         /\ Len(last.calls) = 1
         /\ last.r.tag = "OK"
         /\ cfg = [network |-> disk.network, interface |-> disk.interface]
         /\ disk = last.pre.disk

C14_Witness ==
  /\ last.op = "assertConfig"
  /\ OutOf("loadConfigFile") = "FileDoesNotExist"
  /\ last.r.tag = "OK"
  /\ disk = DefaultFile
  /\ ~last.pre.disk.exists

\* The other cases of C14: the load fails with another error on a file that
\* exists or not; the save of the defaults fails.
C14_WitnessOtherError ==
  /\ last.op = "assertConfig"
  /\ OutOf("loadConfigFile") = "ConfigSyntaxError"
  /\ ~last.pre.disk.exists
  /\ last.r.tag = "Fail"

C14_WitnessSaveFails ==
  /\ last.op = "assertConfig"
  /\ OutOf("loadConfigFile") = "FileDoesNotExist"
  /\ last.r = Fail(Err("ConfigWriteError", "saveConfig", 0))

\* The statuses the specification of the translator lists, with the engine
\* state of each.
ListedStatuses ==
  {<<"poweroff", "STOPPED">>, <<"saved", "SUSPENDED">>, <<"running", "RUNNING">>,
   <<"starting", "RUNNING">>, <<"stopping", "RUNNING">>,
   <<"inaccessible", "INEXISTENT">>, <<"inexistent", "INEXISTENT">>}

\* getMachineState ran and the backend answered the read.
StateRead == last.op = "getMachineState" /\ OutOf("readMachineState") = "OK"

\* C15: the state translator is total.  For every status string the backend
\* answers with, vboxStateToMachineState (reached through getMachineState)
\* returns Success carrying one of RUNNING, STOPPED, SUSPENDED, UNKNOWN,
\* INEXISTENT; it gives the listed statuses their listed states, and a
\* status the table does not hold UNKNOWN.
C15_StateTranslatorTotal ==
  StateRead =>
    /\ last.r.tag = "OK"
    /\ last.r.val.kind = "state"
    /\ last.r.val.state \in EngineStates
    /\ \A p \in ListedStatuses : last.status = p[1] => last.r.val.state = p[2]
    /\ last.status \notin {p[1] : p \in mapping} => last.r.val.state = "UNKNOWN"

C15_Witness ==
  /\ StateRead
  /\ last.status = "some-unlisted-status"
  /\ last.r.tag = "OK"
  /\ last.r.val.state = "UNKNOWN"

\* Another case of C15: a listed status.
C15_WitnessListed ==
  /\ StateRead
  /\ last.status = "saved"
  /\ last.r.val.state = "SUSPENDED"

\* The positions of the failures in the tuple sequence was applied to.
FailuresIn(rs) == {k \in DOMAIN rs : rs[k].tag = "Fail"}

\* C16: sequence returns Success of the tuple of the values, in input
\* order, when every input is a Success, and otherwise the Failure of the
\* first failing input; in assertNetworking, where the interface read comes
\* before the DHCP read, a failed interface read wins over a failed DHCP
\* read.
C16_SequenceFirstFailureWins ==
  /\ last.op = "sequence" /\ FailuresIn(last.input) = {} =>
       /\ last.r.tag = "OK"
       /\ DOMAIN last.r.val = DOMAIN last.input
       /\ \A k \in DOMAIN last.input : last.r.val[k] = last.input[k].val
  /\ last.op = "sequence" /\ FailuresIn(last.input) # {} =>
       \E k \in FailuresIn(last.input) :
         /\ \A j \in FailuresIn(last.input) : k <= j
         /\ last.r = Fail(last.input[k].err)
  /\ RanNet /\ Truthy(PreIface) /\ Cardinality(ReadErrors) = 2 =>
       last.r = Fail(Err(OutOf("readHostOnlyInterface"), "readHostOnlyInterface", PreIface))

C16_Witness ==
  /\ RanNet
  /\ Truthy(PreIface)
  /\ OutOf("readHostOnlyInterface") = "VirtualBoxError"
  /\ OutOf("readDHCP") = "VirtualBoxError"
  /\ last.r.err.op = "readHostOnlyInterface"

\* The cases of C16 on sequence itself: two failures, and three successes.
C16_WitnessTwoFailures ==
  /\ last.op = "sequence"
  /\ Len(last.input) = 3
  /\ FailuresIn(last.input) = {2, 3}
  /\ last.input[2].err # last.input[3].err
  /\ last.r = Fail(last.input[2].err)

C16_WitnessAllSucceed ==
  /\ last.op = "sequence"
  /\ Len(last.input) = 3
  /\ last.input[1] # last.input[2]
  /\ last.r.tag = "OK"
  /\ last.r.val = <<last.input[1].val, last.input[2].val, last.input[3].val>>

\* The pass-through operations, each with the backend primitive it calls.
PassThroughs ==
  {<<"suspendMachine", "suspend">>, <<"haltMachine", "halt">>,
   <<"terminateMachine", "terminate">>, <<"deleteMachine", "delete">>}

\* C17: suspendMachine, haltMachine, terminateMachine and deleteMachine are
\* pass-throughs: each makes exactly one call, of its backend primitive with
\* the uuid it was given, and returns that call's Outcome unchanged; it runs
\* neither assertConfig nor assertNetworking, calls no network backend
\* operation and changes no configuration.
C17_LifecyclePassThrough ==
  \A p \in PassThroughs :
    last.op = p[1] =>
      /\ Len(last.calls) = 1
      /\ last.calls[1].op = p[2]
      /\ last.calls[1].arg = last.arg
      /\ last.calls[1].out = "OK" => last.r = OK(NoVal)
      /\ last.calls[1].out # "OK" =>
           last.r = Fail(Err(last.calls[1].out, p[2], last.arg))
      /\ cfg = last.pre.cfg
      /\ disk = last.pre.disk
      /\ hoifs = last.pre.hoifs
      /\ dhcps = last.pre.dhcps

C17_Witness ==
  /\ last.op = "suspendMachine"
  /\ ~disk.exists
  /\ cfg.network = NoCidr
  /\ last.calls = <<[op |-> "suspend", arg |-> last.arg, out |-> "OK"]>>
  /\ last.r.tag = "OK"

\* Other cases of C17: a failure handed back, by another operation.
C17_WitnessFailure ==
  /\ last.op = "deleteMachine"
  /\ last.r = Fail(Err("VirtualBoxError", "delete", last.arg))

\* C18: with an interface recorded, assertNetworking issues the interface
\* read and the DHCP read on every pass, each whatever the other returned,
\* and both before any call of the decision that follows (provisioning, DHCP
\* repair, configuration write).
C18_BothReadsBeforeDecision ==
  RanNet /\ Truthy(PreIface) =>
    /\ Len(last.calls) >= 2
    /\ last.calls[1].op = "readHostOnlyInterface"
    /\ last.calls[1].arg = PreIface
    /\ last.calls[2].op = "readDHCP"
    /\ last.calls[2].arg = PreIface
    /\ Count("readDHCP") = 1
    /\ \A i \in DOMAIN last.calls :
         last.calls[i].op \in MutatingOps \cup ConfigWrites => i > 2

C18_Witness ==
  /\ RanNet
  /\ Truthy(PreIface)
  /\ OutOf("readHostOnlyInterface") = "VirtualBoxError"
  /\ OutOf("readDHCP") = "OK"
  /\ Len(last.calls) = 2

\* Another case of C18: both reads answer "not found" and the provisioning
\* follows them.
C18_WitnessThenProvisions ==
  /\ RanNet
  /\ Truthy(PreIface)
  /\ OutOf("readHostOnlyInterface") = "VirtualBoxObjectNotFound"
  /\ OutOf("readDHCP") = "VirtualBoxObjectNotFound"
  /\ OpAt(3) = "addHostOnlyInterface"

\* C19: reconciliation is idempotent once converged.  When an
\* assertNetworking pass has returned Success and the method is invoked
\* again with nothing changed in between (the backend answers the two reads
\* as it stands), the second pass takes the converged branch: it makes no
\* mutating backend call and no configuration write, leaves backend and
\* configuration as they are, and returns the same interface.
C19_ConvergedPassIsIdempotent ==
  Retried /\ last.prev.r.tag = "OK" /\ ReadErrors = {} =>
    /\ Len(last.calls) = 2
    /\ NoMutation
    /\ NoConfigWrite
    /\ last.r = last.prev.r
    /\ last.r.val.name = PreIface
    /\ cfg = last.prev.pre.cfg
    /\ disk = last.prev.pre.disk
    /\ hoifs = last.prev.pre.hoifs
    /\ dhcps = last.prev.pre.dhcps

C19_Witness ==
  /\ Retried
  /\ last.prev.r.tag = "OK"
  /\ last.prev.r.val.kind = "hoif"
  /\ ReadErrors = {}
  /\ last.r = last.prev.r
  /\ Len(last.calls) = 2

\* The engine state getMachineState yields for the status that was read.
StateYielded == mappingGet(last.status, "UNKNOWN")

\* C20: for every uuid whose state read succeeds, isRunning returns True
\* exactly when getMachineState yields RUNNING, isSuspended exactly when it
\* yields SUSPENDED, and isStopped exactly when it yields a state other
\* than RUNNING.
C20_PredicatesAgreeWithState ==
  Issued("readMachineState") /\ OutOf("readMachineState") = "OK" =>
    /\ last.op = "isRunning" => ((last.r = PyTrue) <=> (StateYielded = "RUNNING"))
    /\ last.op = "isSuspended" => ((last.r = PyTrue) <=> (StateYielded = "SUSPENDED"))
    /\ last.op = "isStopped" => ((last.r = PyTrue) <=> (StateYielded # "RUNNING"))

====
